---- MODULE Spec2Model ----
(***************************************************************************)
(* Model of app/backend/sample_indexer_datasource_skillset.py.             *)
(*                                                                         *)
(* The script builds request payloads (skillset, datasource, indexer and,  *)
(* in a function the main flow never calls, an index) and sends them to a  *)
(* remote search service through blocking SDK calls.  The model keeps the  *)
(* script's locals, the log of the calls of the current run, and the       *)
(* resources held by the remote service.  Every remote call is two steps:  *)
(* the call is issued, then the service answers (descriptor or error).     *)
(***************************************************************************)
EXTENDS Integers, Sequences, FiniteSets, TLC

VARIABLES env, remote, run, status, pc, calls,
          skillset_name, ds_name, result,
          remoteAtStart, prevStatus

vars == <<env, remote, run, status, pc, calls,
          skillset_name, ds_name, result, remoteAtStart, prevStatus>>

(* ---------------------------- bounds ---------------------------------- *)

\* number of distinct values an embedding environment variable may take
NumValues == 4

\* number of times the script is run against the same remote service
MaxRuns == 2

Values == 1..NumValues

(* ------------------------ environment (86-95) -------------------------- *)

EmbeddingVars == {"AZURE_OPENAI_ENDPOINT", "AZURE_OPENAI_EMBEDDING_DEPLOYMENT",
                  "AZURE_OPENAI_EMBEDDING_MODEL", "AZURE_OPENAI_EMBEDDING_CREDENTIAL"}

\* module-level reads of os.environ; e is the process environment
AZURE_OPENAI_EMBEDDING_ENDPOINT(e) == e["AZURE_OPENAI_ENDPOINT"]
AZURE_OPENAI_EMBEDDING_DEPLOYMENT(e) == e["AZURE_OPENAI_EMBEDDING_DEPLOYMENT"]
AZURE_OPENAI_EMBEDDING_MODEL(e) == e["AZURE_OPENAI_EMBEDDING_MODEL"]
AZURE_OPENAI_EMBEDDING_CREDENTIAL(e) == e["AZURE_OPENAI_EMBEDDING_CREDENTIAL"]

\* the storage connection string is opaque to the script
connection_string == "AZURE_STORAGE_CONNECTION_STRING"

(* --------------------- Python values that need a tag ------------------- *)

\* a Python list and a Python tuple are told apart by their kind
PyList(items) == [kind |-> "list", items |-> items]
PyTuple(items) == [kind |-> "tuple", items |-> items]

(* ------------------------- _create_index (97-120) ---------------------- *)

\* SearchableField(name=..., key=..., sortable=...): a searchable Edm.String
SearchableField(name, key, sortable) ==
    [kind |-> "field", name |-> name, type |-> "Edm.String", key |-> key,
     searchable |-> TRUE, filterable |-> FALSE, sortable |-> sortable]

\* SimpleField(name=..., type=..., filterable=...): not searchable
SimpleField(name, type, filterable) ==
    [kind |-> "field", name |-> name, type |-> type, key |-> FALSE,
     searchable |-> FALSE, filterable |-> filterable, sortable |-> FALSE]

\* SearchField(name=..., type=...): the vector field
SearchField(name, type) ==
    [kind |-> "field", name |-> name, type |-> type, key |-> FALSE,
     searchable |-> FALSE, filterable |-> FALSE, sortable |-> FALSE]

\* the five field definitions of lines 102-112, in source order
IndexFieldList ==
    << SearchableField("chunk_id", TRUE, TRUE),
       SimpleField("parent_id", "Edm.String", TRUE),
       SearchableField("title", FALSE, FALSE),
       SearchableField("chunk", FALSE, FALSE),
       SearchField("text_vector", "Collection(Edm.Single)") >>

\* lines 101-113: `fields=[ ... ],` -- the trailing comma after the closing
\* bracket makes the assigned value a 1-tuple whose only element is the list
fields == PyTuple(<< PyList(IndexFieldList) >>)

\* line 117: SearchIndex(name=name, fields=fields, cors_options=cors_options)
IndexPayload ==
    [name |-> "hotel-index",
     fields |-> fields,
     cors_options |-> [allowed_origins |-> <<"*">>, max_age_in_seconds |-> 60]]

(* ----------------------- _create_datasource (123-132) ------------------ *)

DatasourcePayload ==
    [name |-> "openairagaudio", type |-> "azureblob",
     connection_string |-> connection_string,
     container |-> [name |-> "documentation"]]

(* ------------------------ _create_skillset (135-175) ------------------- *)

\* a document-tree path "/a/b/*" is the sequence of its segments
SplitSkill ==
    [odata_type |-> "SplitSkill",
     text_split_mode |-> "pages",
     context |-> <<"document">>,
     maximum_page_length |-> 2000,
     page_overlap_length |-> 500,
     inputs |-> << [name |-> "text", source |-> <<"document", "content">>] >>,
     outputs |-> << [name |-> "textItems", target_name |-> "pages"] >>]

AzureOpenAIEmbeddingSkill(e) ==
    [odata_type |-> "AzureOpenAIEmbeddingSkill",
     context |-> <<"document", "pages", "*">>,
     resource_uri |-> AZURE_OPENAI_EMBEDDING_ENDPOINT(e),
     api_key |-> AZURE_OPENAI_EMBEDDING_CREDENTIAL(e),
     deployment_id |-> AZURE_OPENAI_EMBEDDING_ENDPOINT(e),
     model_name |-> AZURE_OPENAI_EMBEDDING_MODEL(e),
     dimensions |-> 1536,
     inputs |-> << [name |-> "text", source |-> <<"document", "pages", "*">>] >>,
     outputs |-> << [name |-> "embedding", target_name |-> "text_vector"] >>]

\* mutation: the embedding skill is listed before the split skill
SkillsEmbeddingFirst(e) == << AzureOpenAIEmbeddingSkill(e), SplitSkill >>

\* lines 139-156: skills=[SplitSkill(...), AzureOpenAIEmbeddingSkill(...)]
Skills(e) == << SplitSkill, AzureOpenAIEmbeddingSkill(e) >>

\* mutation: the skillset name differs from one run to the next
SkillsetNamePerRun == IF run = 1 THEN "testtskillset" ELSE "testtskillset-rerun"

\* line 138
SkillsetName == "testtskillset"

\* lines 157-173
IndexProjections ==
    [selectors |-> <<
        [target_index_name |-> "gptkbindex",
         parent_key_field_name |-> "parent_id",
         source_context |-> <<"document", "pages", "*">>,
         mappings |-> <<
            [name |-> "chunk", source |-> <<"document", "pages", "*">>],
            [name |-> "text_vector",
             source |-> <<"document", "pages", "*", "text_vector">>],
            [name |-> "title",
             source |-> <<"document", "metadata_storage_name">>] >>] >>,
     parameters |-> [projection_mode |-> "skipIndexingParentDocuments"]]

SkillsetPayload(e) ==
    [name |-> SkillsetName,
     skills |-> Skills(e),
     index_projections |-> IndexProjections]

(* ---------------------- sample_indexer_workflow (178-210) -------------- *)

\* mutation: the indexer targets the index that _create_index defines
IndexerTargetHotelIndex == "hotel-index"

\* line 196
IndexerTargetIndex == "gptkbindex"

\* mutation: the indexer is bound to the names the script sent, not to the
\* names in the descriptors the service returned
IndexerPayloadSentNames(dsn, ssn) ==
    [name |-> "hotel-data-indexer",
     data_source_name |-> DatasourcePayload.name,
     target_index_name |-> IndexerTargetIndex,
     skillset_name |-> SkillsetName,
     field_mappings |-> << [source_field_name |-> "metadata_storage_name",
                            target_field_name |-> "title"] >>]

\* lines 193-200: SearchIndexer(...)
IndexerPayload(dsn, ssn) ==
    [name |-> "hotel-data-indexer",
     data_source_name |-> dsn,
     target_index_name |-> IndexerTargetIndex,
     skillset_name |-> ssn,
     field_mappings |-> << [source_field_name |-> "metadata_storage_name",
                            target_field_name |-> "title"] >>]

\* mutation: line 187 is live, the index is created before the indexer
WorkflowWithIndex ==
    << "create_skillset", "create_data_source_connection", "create_index",
       "create_indexer", "get_indexer", "run_indexer" >>

\* mutation: the indexer is looked up a second time before it is run
WorkflowGetTwice ==
    << "create_skillset", "create_data_source_connection",
       "create_indexer", "get_indexer", "get_indexer", "run_indexer" >>

\* the remote calls of sample_indexer_workflow in statement order:
\* lines 181, 184, 203, 206, 210 (line 187, _create_index, is a comment)
sample_indexer_workflow ==
    << "create_skillset", "create_data_source_connection",
       "create_indexer", "get_indexer", "run_indexer" >>

\* a direct call of _create_index issues the one remote call of line 119
_create_index == << "create_index" >>

\* the argument of each remote call, built from the locals at the call
Payload(op) ==
    CASE op = "create_skillset" -> SkillsetPayload(env)
      [] op = "create_data_source_connection" -> DatasourcePayload
      [] op = "create_index" -> IndexPayload
      [] op = "create_indexer" -> IndexerPayload(ds_name, skillset_name)
      [] op = "get_indexer" -> [name |-> "hotel-data-indexer"]
      [] op = "run_indexer" -> [name |-> result]

(* ------------------------- the remote service -------------------------- *)

\* a name the service may put in a descriptor instead of the name it was sent
ServiceAssigned == "service-assigned-name"

Names(resources) == {r.name : r \in resources}

\* the service refuses to create a resource whose name is taken
NameTaken(r, op, arg) ==
    CASE op = "create_skillset" -> arg.name \in Names(r.skillsets)
      [] op = "create_data_source_connection" -> arg.name \in Names(r.datasources)
      [] op = "create_indexer" -> arg.name \in Names(r.indexers)
      [] op = "create_index" -> arg.name \in r.indexes
      [] OTHER -> FALSE

\* the names under which the service knows the indexers it holds: the name
\* each was created with and the name the service hands out in descriptors
IndexerNames(r) ==
    Names(r.indexers) \cup (IF r.indexers = {} THEN {} ELSE {ServiceAssigned})

\* get_indexer and run_indexer need the indexer to exist
Missing(r, op, arg) ==
    op \in {"get_indexer", "run_indexer"} /\ arg.name \notin IndexerNames(r)

\* the errors the service may answer a call with
Errors(r, op, arg) ==
    {"service_error"}
      \cup (IF NameTaken(r, op, arg) THEN {"naming_conflict"} ELSE {})
      \cup (IF Missing(r, op, arg) THEN {"not_found"} ELSE {})

\* the resources of the service after it has served a call
RemoteApply(r, op, arg) ==
    CASE op = "create_skillset" -> [r EXCEPT !.skillsets = @ \cup {arg}]
      [] op = "create_data_source_connection" -> [r EXCEPT !.datasources = @ \cup {arg}]
      [] op = "create_indexer" -> [r EXCEPT !.indexers = @ \cup {arg}]
      [] op = "create_index" -> [r EXCEPT !.indexes = @ \cup {arg.name}]
      [] OTHER -> r

\* the name in the descriptor that a successful call returns
\* (run_indexer returns nothing)
ReturnedNames(op, arg) ==
    IF op = "run_indexer" THEN {"None"} ELSE {arg.name, ServiceAssigned}

(* ----------------------------- the script ------------------------------ *)

Last(s) == s[Len(s)]

Pending == calls # << >> /\ Last(calls).outcome = "pending"

EmptyRemote(ix) ==
    [indexes |-> ix, datasources |-> {}, skillsets |-> {}, indexers |-> {}]

\* the state when the script reaches the __main__ guard (line 224): the
\* environment has been read; the service holds any subset of the two indexes
Init ==
    /\ env \in [EmbeddingVars -> Values]
    /\ \E ix \in SUBSET {"gptkbindex", "hotel-index"} : remote = EmptyRemote(ix)
    /\ remoteAtStart = remote
    /\ run = 1
    /\ prevStatus = "none"
    /\ status = "running"
    /\ pc = 1
    /\ calls = << >>
    /\ skillset_name = "unset"
    /\ ds_name = "unset"
    /\ result = "unset"

\* mutation: the exception is swallowed and the next statement runs
OnErrorContinue ==
    [status |-> IF pc + 1 > Len(sample_indexer_workflow) THEN "done" ELSE "running",
     pc |-> pc + 1, remote |-> remote]

\* mutation: the resources of the run are deleted before the script stops
OnErrorRollback == [status |-> "failed", pc |-> pc, remote |-> remoteAtStart]

\* lines 178-210 hold no try/except: an exception of a remote call leaves
\* sample_indexer_workflow and ends the process; nothing is undone
OnError == [status |-> "failed", pc |-> pc, remote |-> remote]

\* the next remote call of program P is issued
Invoke(P) ==
    /\ status = "running"
    /\ ~Pending
    /\ pc <= Len(P)
    /\ calls' = Append(calls, [op |-> P[pc], arg |-> Payload(P[pc]),
                               outcome |-> "pending", ret |-> "none"])
    /\ UNCHANGED <<env, remote, run, status, pc, skillset_name, ds_name,
                   result, remoteAtStart, prevStatus>>

\* the pending call returns; the script binds the name of the returned
\* descriptor (lines 181, 184, 206) and goes on to the next statement
Succeed(P) ==
    /\ status = "running"
    /\ Pending
    /\ LET c == Last(calls) IN
         /\ ~NameTaken(remote, c.op, c.arg)
         /\ ~Missing(remote, c.op, c.arg)
         /\ \E rn \in ReturnedNames(c.op, c.arg) :
              /\ calls' = [calls EXCEPT ![Len(calls)] =
                              [@ EXCEPT !.outcome = "ok", !.ret = rn]]
              /\ skillset_name' = IF c.op = "create_skillset" THEN rn ELSE skillset_name
              /\ ds_name' = IF c.op = "create_data_source_connection" THEN rn ELSE ds_name
              /\ result' = IF c.op = "get_indexer" THEN rn ELSE result
         /\ remote' = RemoteApply(remote, c.op, c.arg)
    /\ pc' = pc + 1
    /\ status' = IF pc + 1 > Len(P) THEN "done" ELSE "running"
    /\ UNCHANGED <<env, run, remoteAtStart, prevStatus>>

\* the pending call raises
Fail ==
    /\ status = "running"
    /\ Pending
    /\ LET c == Last(calls) IN
         \E err \in Errors(remote, c.op, c.arg) :
            calls' = [calls EXCEPT ![Len(calls)] =
                         [@ EXCEPT !.outcome = "error", !.ret = err]]
    /\ status' = OnError.status
    /\ pc' = OnError.pc
    /\ remote' = OnError.remote
    /\ UNCHANGED <<env, run, skillset_name, ds_name, result,
                   remoteAtStart, prevStatus>>

\* the script is started again, against what the service now holds
Rerun ==
    /\ status \in {"done", "failed"}
    /\ run < MaxRuns
    /\ run' = run + 1
    /\ prevStatus' = status
    /\ remoteAtStart' = remote
    /\ status' = "running"
    /\ pc' = 1
    /\ calls' = << >>
    /\ skillset_name' = "unset"
    /\ ds_name' = "unset"
    /\ result' = "unset"
    /\ UNCHANGED <<env, remote>>

Call == Invoke(sample_indexer_workflow)
Return == Succeed(sample_indexer_workflow)

Next == Call \/ Return \/ Fail \/ Rerun

Spec == Init /\ [][Next]_vars

\* the SDK calls block until the service answers or the SDK gives up, and
\* the interpreter runs the next statement as soon as a call has returned
FairSpec == Spec /\ WF_vars(Call) /\ WF_vars(Return \/ Fail)

CreateIndexCall == Invoke(_create_index)
CreateIndexReturn == Succeed(_create_index)

IndexNext == CreateIndexCall \/ CreateIndexReturn \/ Fail \/ Rerun

\* _create_index called on its own
IndexSpec == Init /\ [][IndexNext]_vars

(* ------------------------------ properties ----------------------------- *)

CallsOf(op) == {i \in DOMAIN calls : calls[i].op = op}

ReturnedOk(op, before) ==
    \E j \in CallsOf(op) : j < before /\ calls[j].outcome = "ok"

\* C1: in every run, failed part-way or not, create_indexer is issued only
\* after create_skillset and create_data_source_connection have both
\* returned successfully in that run.
C1_IndexerAfterSkillsetAndDatasource ==
    \A i \in CallsOf("create_indexer") :
        /\ ReturnedOk("create_skillset", i)
        /\ ReturnedOk("create_data_source_connection", i)

C1_Witness ==
    /\ CallsOf("create_indexer") # {}
    /\ status = "failed"

WorkflowOps == {"create_skillset", "create_data_source_connection",
                "create_indexer", "get_indexer", "run_indexer"}

\* what the service holds of the resource a successful create call made
Holds(r, c) ==
    CASE c.op = "create_skillset" -> c.arg \in r.skillsets
      [] c.op = "create_data_source_connection" -> c.arg \in r.datasources
      [] c.op = "create_indexer" -> c.arg \in r.indexers
      [] OTHER -> TRUE

C2_FailedState ==
    /\ \A i \in DOMAIN calls :
          /\ calls[i].op \in WorkflowOps
          /\ calls[i].outcome = "error" => (status = "failed" /\ i = Len(calls))
    /\ status = "failed" =>
          /\ calls # << >>
          /\ Last(calls).outcome = "error"
          /\ \A i \in 1..(Len(calls) - 1) :
                calls[i].outcome = "ok" /\ Holds(remote, calls[i])

C2_NothingAfterFailure ==
    (status = "failed" /\ run' = run) => UNCHANGED <<calls, remote, status>>

\* C2: when a remote call of the workflow fails the script stops, failed, at
\* that call: the call is not retried, no later call and no delete or
\* rollback call is issued, and every resource created earlier in the run
\* is still held by the service.
C2_FailureTerminatesWithoutRollback ==
    []C2_FailedState /\ [][C2_NothingAfterFailure]_vars

C2_Witness ==
    /\ status = "failed"
    /\ Len(calls) = 3
    /\ remote.skillsets # {} /\ remote.datasources # {}

C3_Sequential ==
    /\ Cardinality({i \in DOMAIN calls : calls[i].outcome = "pending"}) <= 1
    /\ \A i \in DOMAIN calls : calls[i].outcome = "pending" => i = Len(calls)
    /\ status = "done" =>
          /\ Len(calls) = 5
          /\ [i \in 1..5 |-> calls[i].op] =
                << "create_skillset", "create_data_source_connection",
                   "create_indexer", "get_indexer", "run_indexer" >>
          /\ \A i \in 1..5 : calls[i].outcome = "ok"
          /\ calls[5].arg.name = calls[4].ret

FaultFree == \A i \in DOMAIN calls : calls[i].ret # "service_error"

\* C4 as stated: the create calls are idempotent, so a run against what a
\* successful earlier run left succeeds and changes nothing.
C4_Original ==
    (run > 1 /\ prevStatus = "done" /\ status # "running" /\ FaultFree)
        => (status = "done" /\ remote = remoteAtStart)

\* C4, amended: the create calls are not idempotent; a run against what a
\* successful earlier run left stops at its first call, create_skillset,
\* which the service refuses, and the resources the service holds and their
\* contents stay as they were.
C4_RerunRefusedRemoteUnchanged ==
    (run > 1 /\ prevStatus = "done") =>
        /\ remote = remoteAtStart
        /\ status # "done"
        /\ Len(calls) <= 1
        /\ \A i \in DOMAIN calls : calls[i].op = "create_skillset"
        /\ (status = "failed" /\ FaultFree) => Last(calls).ret = "naming_conflict"

C4_Witness ==
    /\ run > 1 /\ prevStatus = "done" /\ status = "failed"
    /\ Last(calls).ret = "naming_conflict"
    /\ remote.skillsets # {} /\ remote.datasources # {} /\ remote.indexers # {}

C6_IndexerBindsReturnedNames ==
    \A i \in CallsOf("create_indexer") :
        /\ \E j \in CallsOf("create_data_source_connection") :
              j < i /\ calls[j].outcome = "ok"
                    /\ calls[i].arg.data_source_name = calls[j].ret
        /\ \E k \in CallsOf("create_skillset") :
              k < i /\ calls[k].outcome = "ok"
                    /\ calls[i].arg.skillset_name = calls[k].ret
        /\ calls[i].arg.target_index_name = "gptkbindex"
        /\ calls[i].arg.field_mappings =
              << [source_field_name |-> "metadata_storage_name",
                  target_field_name |-> "title"] >>

C6_Witness ==
    \E i \in CallsOf("create_indexer") :
        /\ calls[i].arg.data_source_name = ServiceAssigned
        /\ calls[i].arg.skillset_name = "testtskillset"

\* C7: the embedding skill of the skillset sent to create_skillset takes its
\* resource URI, deployment id, model name and API key from the embedding
\* endpoint, deployment, model and credential variables respectively.
C7_EmbeddingSettingsFromEnv ==
    \A i \in CallsOf("create_skillset") :
        \E k \in DOMAIN calls[i].arg.skills :
            LET s == calls[i].arg.skills[k] IN
              /\ s.odata_type = "AzureOpenAIEmbeddingSkill"
              /\ s.resource_uri = env["AZURE_OPENAI_ENDPOINT"]
              /\ s.deployment_id = env["AZURE_OPENAI_EMBEDDING_DEPLOYMENT"]
              /\ s.model_name = env["AZURE_OPENAI_EMBEDDING_MODEL"]
              /\ s.api_key = env["AZURE_OPENAI_EMBEDDING_CREDENTIAL"]

FieldNames == << "chunk_id", "parent_id", "title", "chunk", "text_vector" >>

\* C8: the index sent to create_index is named "hotel-index" and its fields
\* value is a list of exactly five fields, chunk_id, parent_id, title, chunk,
\* text_vector in that order, of which exactly chunk_id is the key.
C8_IndexHasFiveFields ==
    \A i \in CallsOf("create_index") :
        LET ix == calls[i].arg IN
          /\ ix.name = "hotel-index"
          /\ ix.fields.kind = "list"
          /\ Len(ix.fields.items) = 5
          /\ \A n \in 1..5 :
                /\ ix.fields.items[n].kind = "field"
                /\ ix.fields.items[n].name = FieldNames[n]
                /\ ix.fields.items[n].key = (n = 1)

\* a path without its "*" segments names the node whose items it ranges over
Node(path) == SelectSeq(path, LAMBDA seg : seg # "*")

RootNodes == { <<"document">>, <<"document", "content">>,
               <<"document", "metadata_storage_name">> }

\* the nodes of the document tree once the first n skills have run
NodesAfter(skills, n) ==
    RootNodes \cup
    UNION { { Node(skills[i].context) \o << skills[i].outputs[o].target_name >> :
                o \in DOMAIN skills[i].outputs } : i \in 1..n }

WellFormed(ss) ==
    /\ \A n \in DOMAIN ss.skills :
          /\ Node(ss.skills[n].context) \in NodesAfter(ss.skills, n - 1)
          /\ \A m \in DOMAIN ss.skills[n].inputs :
                Node(ss.skills[n].inputs[m].source) \in NodesAfter(ss.skills, n - 1)
    /\ \A s \in DOMAIN ss.index_projections.selectors :
          LET sel == ss.index_projections.selectors[s] IN
            /\ Node(sel.source_context) \in NodesAfter(ss.skills, Len(ss.skills))
            /\ \A m \in DOMAIN sel.mappings :
                  Node(sel.mappings[m].source) \in NodesAfter(ss.skills, Len(ss.skills))

\* C9: in the skillset sent to create_skillset every skill input, every
\* skill context and every projection mapping source is a field of the
\* source document or a node that an earlier skill of the list outputs.
C9_SkillsetPathsResolve ==
    \A i \in CallsOf("create_skillset") :
        /\ WellFormed(calls[i].arg)
        /\ <<"document", "pages">> \in NodesAfter(calls[i].arg.skills, 1)
        /\ <<"document", "pages", "text_vector">> \in NodesAfter(calls[i].arg.skills, 2)

C9_Witness ==
    \E i \in CallsOf("create_skillset") :
        /\ Len(calls[i].arg.skills) = 2
        /\ calls[i].outcome = "ok"

\* C10: in every run that reaches create_indexer the skillset's projection
\* and the indexer name the same target index, "gptkbindex", which is not
\* the index that _create_index defines.
C10_OneTargetIndex ==
    \A i \in CallsOf("create_indexer") :
        \A j \in CallsOf("create_skillset") :
            \A s \in DOMAIN calls[j].arg.index_projections.selectors :
                LET t == calls[j].arg.index_projections.selectors[s].target_index_name IN
                  /\ t = calls[i].arg.target_index_name
                  /\ t = "gptkbindex"
                  /\ calls[i].arg.target_index_name # IndexPayload.name
                  /\ IndexPayload.name = "hotel-index"

C10_Witness ==
    \E i \in CallsOf("create_indexer") :
        /\ calls[i].outcome = "ok"
        /\ CallsOf("create_skillset") # {}

====
